---- MODULE Spec2Model ----
(***************************************************************************)
(* Model of dovetailstoragegrid.py (class DovetailStorageGrid) and of the  *)
(* scripts that drive it.                                                  *)
(*                                                                         *)
(* A solid is the tree of CadQuery calls that builds it (a record per      *)
(* call, operands nested), exactly as the Python code composes it; In      *)
(* decides whether a point belongs to such a tree.  Lengths are integers   *)
(* of one arbitrary length unit.  The parameter sets are chosen so that    *)
(* every division the source performs (grid_x/2, (protrusion-gap)/2, ...)  *)
(* is exact; label_size = label_height/sqrt(2) and the dovetail angle are  *)
(* kept exact by comparing squares / by rational sine and cosine.          *)
(***************************************************************************)
EXTENDS Integers, Sequences, FiniteSets, TLC

VARIABLES given, self, raised, ret, shown, probe

vars == <<given, self, raised, ret, shown, probe>>

(***************************************************************************)
(* Bounds of the model.                                                    *)
(***************************************************************************)
\* Largest number of grid cells of a tray along one axis.
MaxCount == 2

\* Largest number of grid cells along one axis of the trays that are sampled
\* point by point.
MaxGeoCount == 2

(***************************************************************************)
(* Small arithmetic helpers.                                               *)
(***************************************************************************)
Max2(a, b) == IF a >= b THEN a ELSE b

Min2(a, b) == IF a <= b THEN a ELSE b

Abs(a) == IF a >= 0 THEN a ELSE -a

Sq(a) == a * a

\* a + b*sqrt(2) >= 0, decided on integers.
NonNegRoot2(a, b) ==
    IF a >= 0 /\ b >= 0 THEN TRUE
    ELSE IF a <= 0 /\ b <= 0 THEN a = 0 /\ b = 0
    ELSE IF a >= 0 THEN Sq(a) >= 2 * Sq(b)
    ELSE 2 * Sq(b) >= Sq(a)

(***************************************************************************)
(* Values of the Python program that are not numbers.                      *)
(***************************************************************************)
None == [op |-> "None"]

\* An angle in degrees, kept as the right triangle that has it: its cosine is
\* adj/hyp and its sine opp/hyp.  90, about 67.38 and about 53.13 degrees.
Deg90 == [adj |-> 0, opp |-> 1, hyp |-> 1]

Deg67 == [adj |-> 5, opp |-> 12, hyp |-> 13]

Deg53 == [adj |-> 3, opp |-> 4, hyp |-> 5]

\* The fraction 0.5.
Half == [num |-> 1, den |-> 2]

(***************************************************************************)
(* The CadQuery calls the program makes: each builds one node of a solid.  *)
(***************************************************************************)
\* cq.Workplane("XY").lineTo(..)...close().extrude(d)
extrude(pts, d) ==
    [op |-> "extrude", sketch |-> "polyline", plane |-> "XY", pts |-> pts, d |-> d]

\* cq.Workplane("YZ").workplane(offset).lineTo(..)...close().extrude(d); a
\* vertex coordinate is c + l*label_size, label_size = label_height/sqrt(root).
extrude_yz(offset, pts, d, label_size) ==
    [op |-> "extrude", sketch |-> "polyline", plane |-> "YZ", offset |-> offset,
     pts |-> pts, d |-> d, label_size |-> label_size]

\* cq.Workplane("YZ").workplane(offset)...close().workplane(offset2)...close().loft()
loft_yz(offset, pts, offset2, pts2, label_size) ==
    [op |-> "loft", plane |-> "YZ", offset |-> offset, pts |-> pts,
     offset2 |-> offset2, pts2 |-> pts2, label_size |-> label_size]

\* cq.Workplane("XY").sketch().trapezoid(w, h, a1).finalize().extrude(d)
trapezoid(w, h, a1, d) ==
    [op |-> "extrude", sketch |-> "trapezoid", plane |-> "XY",
     w |-> w, h |-> h, a1 |-> a1, d |-> d]

translate(s, v) == [op |-> "translate", a |-> s, v |-> v]

\* .rotate((0,0,0), (0,0,1), deg)
rotate(s, deg) == [op |-> "rotate", a |-> s, deg |-> deg]

\* s.faces(face).chamfer(c)
chamfer(s, face, c) == [op |-> "chamfer", a |-> s, face |-> face, c |-> c]

\* s.edges(sel).fillet(r)
fillet(s, sel, r) == [op |-> "fillet", a |-> s, sel |-> sel, r |-> r]

\* s.faces(sel).shell(t)
shell(s, sel, t) == [op |-> "shell", a |-> s, sel |-> sel, t |-> t]

\* a + b
union(a, b) == [op |-> "union", a |-> a, b |-> b]

\* a - b
cut(a, b) == [op |-> "cut", a |-> a, b |-> b]

\* a.intersect(b)
intersect(a, b) == [op |-> "intersect", a |-> a, b |-> b]

\* c + l*label_size
Lin(c, l) == [c |-> c, l |-> l]

(***************************************************************************)
(* The geometry kernel: which points a tree of calls contains.             *)
(***************************************************************************)
\* The box of the XY polyline a prism was extruded from.
RECURSIVE Box(_)
Box(s) ==
    IF s.op = "extrude"
    THEN LET xs == {s.pts[i][1] : i \in DOMAIN s.pts}
             ys == {s.pts[i][2] : i \in DOMAIN s.pts}
         IN  [x0 |-> CHOOSE v \in xs : \A u \in xs : v <= u,
              x1 |-> CHOOSE v \in xs : \A u \in xs : v >= u,
              y0 |-> CHOOSE v \in ys : \A u \in ys : v <= u,
              y1 |-> CHOOSE v \in ys : \A u \in ys : v >= u,
              z0 |-> 0, z1 |-> s.d]
    ELSE Box(s.a)

\* How far the chamfers of s have moved its side faces inward at height z.
RECURSIVE Inset(_, _)
Inset(s, z) ==
    IF s.op = "extrude" THEN 0
    ELSE IF s.op = "chamfer"
    THEN LET b == Box(s)
             depth == IF s.face = "+Z" THEN b.z1 - z ELSE z - b.z0
         IN  Max2(Inset(s.a, z), s.c - depth)
    ELSE Inset(s.a, z)

\* The part a fillet of radius r removes at the four corners of the rectangle
\* [x0+k, x1-k] x [y0+k, y1-k].
CornerCut(x, y, b, k, r) ==
    LET u == Min2(x - (b.x0 + k), (b.x1 - k) - x)
        v == Min2(y - (b.y0 + k), (b.y1 - k) - y)
    IN  u < r /\ v < r /\ Sq(r - u) + Sq(r - v) > Sq(r)

\* The rectangle b with corners rounded by r, offset in the plane by d
\* (outward, with round joins, for d > 0; inward for d < 0).
InRoundedRect(x, y, b, r, d) ==
    IF r + d >= 0
    THEN LET dx == Max2(Max2((b.x0 + r) - x, x - (b.x1 - r)), 0)
             dy == Max2(Max2((b.y0 + r) - y, y - (b.y1 - r)), 0)
         IN  Sq(dx) + Sq(dy) <= Sq(r + d)
    ELSE /\ b.x0 - d <= x /\ x <= b.x1 + d
         /\ b.y0 - d <= y /\ y <= b.y1 + d

\* The trapezoid of CadQuery's Sketch.trapezoid(w, h, a1): corners
\* (-w/2,-h/2), (w/2,-h/2), (w/2 - h/tan(a1), h/2), (-w/2 + h/tan(a1), h/2),
\* offset in the plane by d.  All comparisons are multiplied out.
InTrapezoid(x, y, t, d) ==
    LET adj == t.a1.adj
        opp == t.a1.opp
        hyp == t.a1.hyp
        ax  == Abs(x)
        \* twice the signed distance of (ax, y) beyond the slanted side, times hyp
        side2 == (2 * ax - t.w) * opp + (2 * y + t.h) * adj
        \* the corner at the wide base, (w/2, -h/2), times 2
        bx2 == t.w
        by2 == -t.h
        \* the corner at the narrow top, (w/2 - h*adj/opp, h/2), times 2*opp
        tx2o == t.w * opp - 2 * t.h * adj
        inMitre == /\ -t.h - 2 * d <= 2 * y
                   /\ 2 * y <= t.h + 2 * d
                   /\ side2 <= 2 * hyp * d
        \* in the cone of points whose nearest point is the base corner: past
        \* the end of the base side and past the end of the slanted side
        atBase == /\ 2 * ax - bx2 >= 0
                  /\ (2 * ax - bx2) * adj - (2 * y - by2) * opp >= 0
        nearBase == Sq(2 * ax - bx2) + Sq(2 * y - by2) <= Sq(2 * d)
        \* the same for the top corner
        atTop == /\ 2 * opp * ax - tx2o >= 0
                 /\ -(2 * opp * ax - tx2o) * adj + (2 * y - t.h) * opp * opp >= 0
        nearTop == Sq(2 * opp * ax - tx2o) + Sq(opp * (2 * y - t.h)) <= Sq(2 * opp * d)
    IN  /\ inMitre
        /\ d > 0 => /\ atBase => nearBase
                    /\ atTop => nearTop

\* Sign of the cross product (B - A) x (P - A) in the sketch plane, where the
\* coordinates of A and B are c + l*ls, ls = n/sqrt(2), and P = (py, pz) is
\* given multiplied by k like A and B: ge TRUE asks >= 0, FALSE asks <= 0.
CrossSign(A, B, py, pz, n, ge) ==
    LET uy == Lin(B.y.c - A.y.c, B.y.l - A.y.l)
        uz == Lin(B.z.c - A.z.c, B.z.l - A.z.l)
        wy == Lin(py - A.y.c, -A.y.l)
        wz == Lin(pz - A.z.c, -A.z.l)
        \* uy*wz - uz*wy = c0 + c1*ls + c2*ls^2
        c0 == uy.c * wz.c - uz.c * wy.c
        c1 == uy.c * wz.l + uy.l * wz.c - uz.c * wy.l - uz.l * wy.c
        c2 == uy.l * wz.l - uz.l * wy.l
        \* times 2: (2*c0 + c2*n^2) + (c1*n)*sqrt(2)
        a == 2 * c0 + c2 * n * n
        b == c1 * n
    IN  IF ge THEN NonNegRoot2(a, b) ELSE NonNegRoot2(-a, -b)

\* Whether (py, pz) lies in the convex polygon pts of the sketch plane.
InPolygon(pts, py, pz, n) ==
    LET m == Len(pts)
        nxt(i) == IF i = m THEN 1 ELSE i + 1
    IN  \/ \A i \in 1..m : CrossSign(pts[i], pts[nxt(i)], py, pz, n, TRUE)
        \/ \A i \in 1..m : CrossSign(pts[i], pts[nxt(i)], py, pz, n, FALSE)

\* The vertex list (1-t)*pts + t*pts2 of a loft section, multiplied by L,
\* where t = s/L.
Blend(pts, pts2, s, L) ==
    [i \in DOMAIN pts |->
        [y |-> Lin((L - s) * pts[i].y.c + s * pts2[i].y.c,
                   (L - s) * pts[i].y.l + s * pts2[i].y.l),
         z |-> Lin((L - s) * pts[i].z.c + s * pts2[i].z.c,
                   (L - s) * pts[i].z.l + s * pts2[i].z.l)]]

\* The lattice steps of length at most t.
Near(t) ==
    {n \in {<<i * 4, j * 4, k * 4>> : i, j, k \in -(t \div 4)..(t \div 4)} :
        Sq(n[1]) + Sq(n[2]) + Sq(n[3]) <= Sq(t) /\ n # <<0, 0, 0>>}

\* The height of the top face of a solid.
RECURSIVE ZTop(_)
ZTop(s) == IF s.op = "extrude" THEN s.d ELSE ZTop(s.a)

\* The point that a rotation about Z by deg (-90 or 90 degrees) takes to pt:
\* rotating (x, y) by -90 degrees gives (y, -x).
Unrotated(pt, deg) ==
    IF deg = -90 THEN <<-pt[2], pt[1], pt[3]>> ELSE <<pt[2], -pt[1], pt[3]>>

\* The in-plane offset by d of a prism, for the shapes shell() is applied to.
RECURSIVE InOffset(_, _, _)
InOffset(pt, s, d) ==
    CASE s.op = "translate" ->
            InOffset(<<pt[1] - s.v[1], pt[2] - s.v[2], pt[3] - s.v[3]>>, s.a, d)
      [] s.op = "rotate" -> InOffset(Unrotated(pt, s.deg), s.a, d)
      [] s.op = "extrude" ->
            /\ 0 <= pt[3] /\ pt[3] <= s.d
            /\ IF s.sketch = "trapezoid"
               THEN InTrapezoid(pt[1], pt[2], s, d)
               ELSE InRoundedRect(pt[1], pt[2], Box(s), 0, d)
      [] s.op = "fillet" ->
            /\ 0 <= pt[3] /\ pt[3] <= ZTop(s)
            /\ InRoundedRect(pt[1], pt[2], Box(s), s.r, d)

\* Whether point pt belongs to solid s.
RECURSIVE In(_, _)
In(pt, s) ==
    CASE s.op = "extrude" ->
            IF s.plane = "XY"
            THEN IF s.sketch = "trapezoid"
                 THEN InOffset(pt, s, 0)
                 ELSE LET b == Box(s)
                      IN  /\ b.x0 <= pt[1] /\ pt[1] <= b.x1
                          /\ b.y0 <= pt[2] /\ pt[2] <= b.y1
                          /\ b.z0 <= pt[3] /\ pt[3] <= b.z1
            ELSE \* plane YZ: the sketch's x is Y, its y is Z, its normal is +X
                 /\ s.offset <= pt[1] /\ pt[1] <= s.offset + s.d
                 /\ InPolygon(s.pts, pt[2], pt[3], s.label_size.num)
      [] s.op = "loft" ->
            LET L == -s.offset2
                d == s.offset - pt[1]
            IN  /\ 0 <= d /\ d <= L
                /\ InPolygon(Blend(s.pts, s.pts2, d, L), L * pt[2], L * pt[3],
                             s.label_size.num)
      [] s.op = "chamfer" ->
            LET b == Box(s)
                depth == IF s.face = "+Z" THEN b.z1 - pt[3] ELSE pt[3] - b.z0
                k == s.c - depth
            IN  /\ In(pt, s.a)
                /\ k > 0 => /\ b.x0 + k <= pt[1] /\ pt[1] <= b.x1 - k
                            /\ b.y0 + k <= pt[2] /\ pt[2] <= b.y1 - k
      [] s.op = "fillet" ->
            \* The corners of every horizontal section are rounded by r: exact
            \* for the vertical edges, and the model's reading of the slanted
            \* edges between chamfer faces that "not (>Z or <Z)" also selects.
            /\ In(pt, s.a)
            /\ ~CornerCut(pt[1], pt[2], Box(s), Max2(Inset(s.a, pt[3]), 0), s.r)
      [] s.op = "translate" ->
            In(<<pt[1] - s.v[1], pt[2] - s.v[2], pt[3] - s.v[3]>>, s.a)
      [] s.op = "rotate" -> In(Unrotated(pt, s.deg), s.a)
      [] s.op = "union" -> In(pt, s.a) \/ In(pt, s.b)
      [] s.op = "cut" -> In(pt, s.a) /\ ~In(pt, s.b)
      [] s.op = "intersect" -> In(pt, s.a) /\ In(pt, s.b)
      [] s.op = "shell" ->
            IF s.sel = "+Z or -Z"
            THEN \* the side wall of thickness |t|, inside (t < 0) or outside
                 IF s.t < 0
                 THEN In(pt, s.a) /\ ~InOffset(pt, s.a, s.t)
                 ELSE InOffset(pt, s.a, s.t) /\ ~In(pt, s.a)
            ELSE \* sel = ">Z", t < 0: the top face is removed and every other
                 \* face gets a wall of thickness |t| on its inside
                 /\ In(pt, s.a)
                 /\ \E n \in Near(-s.t) :
                       LET q == <<pt[1] + n[1], pt[2] + n[2], pt[3] + n[3]>>
                       IN  q[3] < ZTop(s.a) /\ ~In(q, s.a)

(***************************************************************************)
(* class DovetailStorageGrid: the functions, as the trees they build.      *)
(* g is the object (self).                                                 *)
(***************************************************************************)
nominal_volume(g, x, y) ==
    extrude(<<<<0, 0>>,
              <<0, g.grid_y * y>>,
              <<g.grid_x * x, g.grid_y * y>>,
              <<g.grid_x * x, 0>>>>,
            g.grid_z)

\* A faulty _grow_xy_by: a negative amount grows and a positive one shrinks.
_grow_xy_byReversed(shape, amount) ==
    IF amount > 0 THEN cut(shape, shell(shape, "+Z or -Z", -amount))
    ELSE IF amount < 0 THEN union(shape, shell(shape, "+Z or -Z", -amount))
    ELSE shape

_grow_xy_by(shape, amount) ==
    IF amount < 0 THEN cut(shape, shell(shape, "+Z or -Z", amount))
    ELSE IF amount > 0 THEN union(shape, shell(shape, "+Z or -Z", amount))
    ELSE shape

\* A faulty bounding_volume: the top chamfer is one unit deeper.
bounding_volumeDeepChamfer(g, x, y) ==
    LET p == g.dovetail_protrusion
        bounds == extrude(<<<<-p, -p>>,
                            <<-p, p + g.grid_y * y>>,
                            <<p + g.grid_x * x, p + g.grid_y * y>>,
                            <<p + g.grid_x * x, -p>>>>,
                          g.grid_z)
        top == chamfer(bounds, "+Z", g.dovetail_protrusion + g.chamfer_top + 1)
        bottom == chamfer(top, "-Z", g.dovetail_protrusion + g.chamfer_bottom)
    IN  fillet(bottom, "not (>Z or <Z)", g.corner_fillet)

\* Line 150 of the source grows the nominal volume and line 152 overwrites the
\* result; only the second assignment reaches the returned solid.
bounding_volume(g, x, y) ==
    LET p == g.dovetail_protrusion
        bounds == extrude(<<<<-p, -p>>,
                            <<-p, p + g.grid_y * y>>,
                            <<p + g.grid_x * x, p + g.grid_y * y>>,
                            <<p + g.grid_x * x, -p>>>>,
                          g.grid_z)
        top == chamfer(bounds, "+Z", g.dovetail_protrusion + g.chamfer_top)
        bottom == chamfer(top, "-Z", g.dovetail_protrusion + g.chamfer_bottom)
    IN  fillet(bottom, "not (>Z or <Z)", g.corner_fillet)

\* A faulty _dovetail: the profile is centred on the edge, not moved outward.
_dovetailCentred(g, width) ==
    translate(trapezoid(width,
                        g.dovetail_protrusion + g.tray_gap + g.dovetail_gap * 2,
                        g.dovetail_angle,
                        g.grid_z),
              <<0, 0, 0>>)

_dovetail(g, width) ==
    translate(trapezoid(width,
                        g.dovetail_protrusion + g.tray_gap + g.dovetail_gap * 2,
                        g.dovetail_angle,
                        g.grid_z),
              <<0, -((g.dovetail_protrusion - g.tray_gap) \div 2), 0>>)

_dovetail_y(g) ==
    _dovetail(g, (g.grid_x * g.dovetail_length_fraction.num)
                    \div g.dovetail_length_fraction.den)

\* A faulty _dovetail_x: the profile is turned the other way.
_dovetail_xTurnedBack(g) ==
    rotate(_dovetail(g, (g.grid_y * g.dovetail_length_fraction.num)
                           \div g.dovetail_length_fraction.den),
           90)

_dovetail_x(g) ==
    rotate(_dovetail(g, (g.grid_y * g.dovetail_length_fraction.num)
                           \div g.dovetail_length_fraction.den),
           -90)

\* A faulty _tray_x_loop: the tab goes to the rear edge and the slot to the front.
RECURSIVE _tray_x_loopSwapped(_, _, _, _, _, _)
_tray_x_loopSwapped(g, tray, dovetail_y, tray_y, x_index, x) ==
    IF x_index >= x THEN tray
    ELSE LET x_position == g.grid_x \div 2 + x_index * g.grid_x
             added == union(tray, translate(_grow_xy_by(dovetail_y, -g.dovetail_gap),
                                            <<x_position, tray_y, 0>>))
             removed == cut(added, translate(_grow_xy_by(dovetail_y, g.dovetail_gap),
                                             <<x_position, 0, 0>>))
         IN  _tray_x_loopSwapped(g, removed, dovetail_y, tray_y, x_index + 1, x)

\* for x_index in range(x): one tab on the front, one slot on the rear
RECURSIVE _tray_x_loop(_, _, _, _, _, _)
_tray_x_loop(g, tray, dovetail_y, tray_y, x_index, x) ==
    IF x_index >= x THEN tray
    ELSE LET x_position == g.grid_x \div 2 + x_index * g.grid_x
             added == union(tray, translate(_grow_xy_by(dovetail_y, -g.dovetail_gap),
                                            <<x_position, 0, 0>>))
             removed == cut(added, translate(_grow_xy_by(dovetail_y, g.dovetail_gap),
                                             <<x_position, tray_y, 0>>))
         IN  _tray_x_loop(g, removed, dovetail_y, tray_y, x_index + 1, x)

\* for y_index in range(y): one tab on the left, one slot on the right
RECURSIVE _tray_y_loop(_, _, _, _, _, _)
_tray_y_loop(g, tray, dovetail_x, tray_x, y_index, y) ==
    IF y_index >= y THEN tray
    ELSE LET y_position == g.grid_y \div 2 + y_index * g.grid_y
             added == union(tray, translate(_grow_xy_by(dovetail_x, -g.dovetail_gap),
                                            <<0, y_position, 0>>))
             removed == cut(added, translate(_grow_xy_by(dovetail_x, g.dovetail_gap),
                                             <<tray_x, y_position, 0>>))
         IN  _tray_y_loop(g, removed, dovetail_x, tray_x, y_index + 1, y)

\* A faulty _tray: the result is not intersected with the bounding volume.
_trayUnclipped(g, x, y) ==
    LET nominal == nominal_volume(g, x, y)
        rounded == fillet(nominal, "|Z", g.corner_fillet)
        shrunk == IF g.tray_gap > 0 THEN _grow_xy_by(rounded, -g.tray_gap)
                  ELSE rounded
        tray_x == x * g.grid_x
        tray_y == y * g.grid_y
        with_y == _tray_x_loop(g, shrunk, _dovetail_y(g), tray_y, 0, x)
    IN  _tray_y_loop(g, with_y, _dovetail_x(g), tray_x, 0, y)

_tray(g, x, y) ==
    LET nominal == nominal_volume(g, x, y)
        rounded == fillet(nominal, "|Z", g.corner_fillet)
        shrunk == IF g.tray_gap > 0 THEN _grow_xy_by(rounded, -g.tray_gap)
                  ELSE rounded
        tray_x == x * g.grid_x
        tray_y == y * g.grid_y
        with_y == _tray_x_loop(g, shrunk, _dovetail_y(g), tray_y, 0, x)
        with_x == _tray_y_loop(g, with_y, _dovetail_x(g), tray_x, 0, y)
    IN  intersect(with_x, bounding_volume(g, x, y))

\* A faulty basic_tray: the tray is shelled whatever wall_thickness is.
basic_trayAlwaysShelled(g, x, y, wall_thickness) ==
    shell(_tray(g, x, y), ">Z", -wall_thickness)

basic_tray(g, x, y, wall_thickness) ==
    LET tray == _tray(g, x, y)
    IN  IF wall_thickness > 0 THEN shell(tray, ">Z", -wall_thickness) ELSE tray

\* A faulty label_tray: the wedge is not subtracted, only the relief.
label_trayNoWedge(g, x, y, wall_thickness, label_height) ==
    LET label_size == [num |-> label_height, root |-> 2]
        p == g.dovetail_protrusion
        z == g.grid_z
        relief == loft_yz(x * g.grid_x,
                    <<[y |-> Lin(0, 1),  z |-> Lin(z, 0)],
                      [y |-> Lin(-p, 0), z |-> Lin(z, 0)],
                      [y |-> Lin(-p, 0), z |-> Lin(z - p * 2, -1)],
                      [y |-> Lin(0, 1),  z |-> Lin(z - p * 2, -1)]>>,
                    -p - g.dovetail_gap - g.tray_gap,
                    <<[y |-> Lin(0, 1),  z |-> Lin(z, 0)],
                      [y |-> Lin(-p, 0), z |-> Lin(z, 0)],
                      [y |-> Lin(-p, 0), z |-> Lin(z - p, -1)],
                      [y |-> Lin(0, 1),  z |-> Lin(z - p, -1)]>>,
                    label_size)
        tray == cut(_tray(g, x, y), relief)
    IN  IF wall_thickness > 0 THEN shell(tray, ">Z", -wall_thickness) ELSE tray

\* A faulty label_tray: the tray is shelled before the wedge and the relief
\* are subtracted.
label_trayShelledFirst(g, x, y, wall_thickness, label_height) ==
    LET label_size == [num |-> label_height, root |-> 2]
        p == g.dovetail_protrusion
        z == g.grid_z
        assembled == _tray(g, x, y)
        walled == IF wall_thickness > 0
                  THEN shell(assembled, ">Z", -wall_thickness) ELSE assembled
        wedge == extrude_yz(0,
                    <<[y |-> Lin(0, 1),  z |-> Lin(z, 0)],
                      [y |-> Lin(-p, 0), z |-> Lin(z, 0)],
                      [y |-> Lin(-p, 0), z |-> Lin(z - p, -1)]>>,
                    x * g.grid_x, label_size)
        relief == loft_yz(x * g.grid_x,
                    <<[y |-> Lin(0, 1),  z |-> Lin(z, 0)],
                      [y |-> Lin(-p, 0), z |-> Lin(z, 0)],
                      [y |-> Lin(-p, 0), z |-> Lin(z - p * 2, -1)],
                      [y |-> Lin(0, 1),  z |-> Lin(z - p * 2, -1)]>>,
                    -p - g.dovetail_gap - g.tray_gap,
                    <<[y |-> Lin(0, 1),  z |-> Lin(z, 0)],
                      [y |-> Lin(-p, 0), z |-> Lin(z, 0)],
                      [y |-> Lin(-p, 0), z |-> Lin(z - p, -1)],
                      [y |-> Lin(0, 1),  z |-> Lin(z - p, -1)]>>,
                    label_size)
    IN  cut(cut(walled, wedge), relief)

label_tray(g, x, y, wall_thickness, label_height) ==
    LET label_size == [num |-> label_height, root |-> 2]
        p == g.dovetail_protrusion
        z == g.grid_z
        wedge == extrude_yz(0,
                    <<[y |-> Lin(0, 1),  z |-> Lin(z, 0)],
                      [y |-> Lin(-p, 0), z |-> Lin(z, 0)],
                      [y |-> Lin(-p, 0), z |-> Lin(z - p, -1)]>>,
                    x * g.grid_x, label_size)
        notched == cut(_tray(g, x, y), wedge)
        relief == loft_yz(x * g.grid_x,
                    <<[y |-> Lin(0, 1),  z |-> Lin(z, 0)],
                      [y |-> Lin(-p, 0), z |-> Lin(z, 0)],
                      [y |-> Lin(-p, 0), z |-> Lin(z - p * 2, -1)],
                      [y |-> Lin(0, 1),  z |-> Lin(z - p * 2, -1)]>>,
                    -p - g.dovetail_gap - g.tray_gap,
                    <<[y |-> Lin(0, 1),  z |-> Lin(z, 0)],
                      [y |-> Lin(-p, 0), z |-> Lin(z, 0)],
                      [y |-> Lin(-p, 0), z |-> Lin(z - p, -1)],
                      [y |-> Lin(0, 1),  z |-> Lin(z - p, -1)]>>,
                    label_size)
        tray == cut(notched, relief)
    IN  IF wall_thickness > 0 THEN shell(tray, ">Z", -wall_thickness) ELSE tray

(***************************************************************************)
(* The parameters the model draws.                                         *)
(***************************************************************************)
Counts == 1..MaxCount

GeoCounts == 1..MaxGeoCount

\* Constructor arguments: three families that together give every parameter
\* at least two values, tray_gap also a negative one.  Every dovetail they
\* describe is a proper trapezoid that survives its shrinking by dovetail_gap.
Args ==
    [x : {24, 32}, y : {24, 32}, z : {24}, tray_gap : {-2, 0, 2},
     corner_fillet : {4}, chamfer_top : {2}, chamfer_bottom : {3},
     dovetail_protrusion : {4}, dovetail_length_fraction : {Half},
     dovetail_angle : {Deg90, Deg67}, dovetail_gap : {0, 1}]
    \cup
    [x : {32}, y : {24}, z : {24, 32}, tray_gap : {0},
     corner_fillet : {2}, chamfer_top : {1}, chamfer_bottom : {3, 5},
     dovetail_protrusion : {4, 6}, dovetail_length_fraction : {Half},
     dovetail_angle : {Deg53}, dovetail_gap : {1}]
    \cup
    [x : {24}, y : {32}, z : {24}, tray_gap : {2},
     corner_fillet : {2, 3}, chamfer_top : {0, 1}, chamfer_bottom : {3},
     dovetail_protrusion : {4},
     dovetail_length_fraction : {Half, [num |-> 3, den |-> 4]},
     dovetail_angle : {Deg67}, dovetail_gap : {1}]

WallThicknesses == {0, 4}

LabelHeights == {2, 16}

NoProbe == <<>>

NoCall == [fn |-> "None", x |-> 0, y |-> 0, wall_thickness |-> 0,
           label_height |-> 0, value |-> None]

Call(fn, x, y, wall_thickness, label_height, value) ==
    [fn |-> fn, x |-> x, y |-> y, wall_thickness |-> wall_thickness,
     label_height |-> label_height, value |-> value]

(***************************************************************************)
(* The state machine: one object, constructed once, then any sequence of   *)
(* calls of its functions; probe is a point at which the solid returned    *)
(* last is inspected.                                                      *)
(***************************************************************************)
Init ==
    /\ given = None
    /\ self = None
    /\ raised = "None"
    /\ ret = NoCall
    /\ shown = {}
    /\ probe = NoProbe

\* The object the constructor builds from arguments a.
Fields(a) ==
    [grid_x |-> a.x,
     grid_y |-> a.y,
     grid_z |-> a.z,
     tray_gap |-> a.tray_gap,
     corner_fillet |-> a.corner_fillet,
     chamfer_top |-> a.chamfer_top,
     chamfer_bottom |-> a.chamfer_bottom,
     dovetail_protrusion |-> a.dovetail_protrusion,
     dovetail_length_fraction |-> a.dovetail_length_fraction,
     dovetail_angle |-> a.dovetail_angle,
     dovetail_gap |-> a.dovetail_gap]

\* A faulty __init__: the fields are stored before tray_gap is validated.
__init__StoresFirst(a) ==
    /\ given = None
    /\ given' = a
    /\ self' = Fields(a)
    /\ raised' = IF a.tray_gap < 0 THEN "ValueError" ELSE raised
    /\ UNCHANGED <<ret, shown, probe>>

\* DovetailStorageGrid(x, y, z, tray_gap, ...)
__init__(a) ==
    /\ given = None
    /\ given' = a
    /\ IF a.tray_gap < 0
       THEN /\ raised' = "ValueError"
            /\ self' = self
       ELSE /\ self' = Fields(a)
            /\ raised' = raised
    /\ UNCHANGED <<ret, shown, probe>>

Callable == self # None /\ probe = NoProbe

call_nominal_volume(x, y) ==
    /\ Callable
    /\ ret' = Call("nominal_volume", x, y, 0, 0, nominal_volume(self, x, y))
    /\ UNCHANGED <<given, self, raised, shown, probe>>

call_bounding_volume(x, y) ==
    /\ Callable
    /\ ret' = Call("bounding_volume", x, y, 0, 0, bounding_volume(self, x, y))
    /\ UNCHANGED <<given, self, raised, shown, probe>>

call__dovetail_y ==
    /\ Callable
    /\ ret' = Call("_dovetail_y", 0, 0, 0, 0, _dovetail_y(self))
    /\ UNCHANGED <<given, self, raised, shown, probe>>

call__dovetail_x ==
    /\ Callable
    /\ ret' = Call("_dovetail_x", 0, 0, 0, 0, _dovetail_x(self))
    /\ UNCHANGED <<given, self, raised, shown, probe>>

\* _grow_xy_by on the solid returned last, when that is a prism
call__grow_xy_by(amount) ==
    /\ Callable
    /\ ret.fn \in {"_dovetail_y", "_dovetail_x", "nominal_volume"}
    /\ ret' = Call("_grow_xy_by", ret.x, ret.y, 0, 0, _grow_xy_by(ret.value, amount))
    /\ UNCHANGED <<given, self, raised, shown, probe>>

\* A faulty call__tray: tray_x is written to the object instead of a local.
call__trayWritesSelf(x, y) ==
    /\ Callable
    /\ ret' = Call("_tray", x, y, 0, 0, _tray(self, x, y))
    /\ self' = [self EXCEPT !.grid_x = x * self.grid_x]
    /\ UNCHANGED <<given, raised, shown, probe>>

call__tray(x, y) ==
    /\ Callable
    /\ ret' = Call("_tray", x, y, 0, 0, _tray(self, x, y))
    /\ UNCHANGED <<given, self, raised, shown, probe>>

call_basic_tray(x, y, wall_thickness) ==
    /\ Callable
    /\ ret' = Call("basic_tray", x, y, wall_thickness, 0,
                   basic_tray(self, x, y, wall_thickness))
    /\ UNCHANGED <<given, self, raised, shown, probe>>

call_label_tray(x, y, wall_thickness, label_height) ==
    /\ Callable
    /\ ret' = Call("label_tray", x, y, wall_thickness, label_height,
                   label_tray(self, x, y, wall_thickness, label_height))
    /\ UNCHANGED <<given, self, raised, shown, probe>>

Next ==
    \/ \E a \in Args : __init__(a)
    \/ \E x, y \in Counts : call_nominal_volume(x, y)
    \/ \E x, y \in Counts : call_bounding_volume(x, y)
    \/ call__dovetail_y
    \/ call__dovetail_x
    \/ \E amount \in {-1, 0, 1} : call__grow_xy_by(amount)
    \/ \E x, y \in Counts : call__tray(x, y)
    \/ \E x, y \in Counts, w \in WallThicknesses : call_basic_tray(x, y, w)
    \/ \E x, y \in Counts, w \in WallThicknesses, h \in LabelHeights :
          call_label_tray(x, y, w, h)

Spec == Init /\ [][Next]_vars

(***************************************************************************)
(* Inspecting the solid returned last at one point.                        *)
(***************************************************************************)
Inspectable == ret.fn # "None" /\ probe = NoProbe

Probe(pt) ==
    /\ Inspectable
    /\ probe' = pt
    /\ UNCHANGED <<given, self, raised, ret, shown>>

\* The tray sizes whose solids are inspected point by point.
GeoExtents == {e \in GeoCounts \X GeoCounts : e[1] + e[2] <= MaxGeoCount + 1}

(***************************************************************************)
(* The envelope: nominal and bounding volume of small cells, inspected at  *)
(* every integer point of the bounding box and one unit around it.         *)
(***************************************************************************)
EnvArgs ==
    [x : {8}, y : {8}, z : {10}, tray_gap : {0},
     corner_fillet : {2}, chamfer_top : {0, 2}, chamfer_bottom : {1},
     dovetail_protrusion : {2}, dovetail_length_fraction : {Half},
     dovetail_angle : {Deg90}, dovetail_gap : {0}]
    \cup
    [x : {10}, y : {8}, z : {12}, tray_gap : {0},
     corner_fillet : {1, 2}, chamfer_top : {1}, chamfer_bottom : {2},
     dovetail_protrusion : {1}, dovetail_length_fraction : {Half},
     dovetail_angle : {Deg90}, dovetail_gap : {0}]

EnvPoints ==
    IF ~Inspectable THEN {}
    ELSE LET g == self
             m == g.dovetail_protrusion + 1
         IN  (-m..(g.grid_x * ret.x + m)) \X (-m..(g.grid_y * ret.y + m))
                 \X (-1..(g.grid_z + 1))

NextEnvelope ==
    \/ \E a \in EnvArgs : __init__(a)
    \/ \E e \in GeoExtents : call_nominal_volume(e[1], e[2])
    \/ \E e \in GeoExtents : call_bounding_volume(e[1], e[2])
    \/ \E pt \in EnvPoints : Probe(pt)

SpecEnvelope == Init /\ [][NextEnvelope]_vars

(***************************************************************************)
(* The dovetail profiles, grown and shrunk, inspected at every integer     *)
(* point of the plane around them, at the middle and top height and above. *)
(***************************************************************************)
DovetailArgs ==
    [x : {24, 32}, y : {24}, z : {24}, tray_gap : {0, 2},
     corner_fillet : {4}, chamfer_top : {2}, chamfer_bottom : {3},
     dovetail_protrusion : {4}, dovetail_length_fraction : {Half},
     dovetail_angle : {Deg67}, dovetail_gap : {0, 1}]
    \cup
    [x : {32}, y : {24}, z : {24}, tray_gap : {0},
     corner_fillet : {2}, chamfer_top : {1}, chamfer_bottom : {3},
     dovetail_protrusion : {4, 6}, dovetail_length_fraction : {Half},
     dovetail_angle : {Deg90, Deg53}, dovetail_gap : {1}]
    \cup
    [x : {24}, y : {32}, z : {24}, tray_gap : {2},
     corner_fillet : {2}, chamfer_top : {1}, chamfer_bottom : {3},
     dovetail_protrusion : {4},
     dovetail_length_fraction : {[num |-> 3, den |-> 4]},
     dovetail_angle : {Deg67}, dovetail_gap : {1}]

DovetailPoints ==
    IF ~Inspectable THEN {}
    ELSE LET g == self
             far == Max2(g.grid_x, g.grid_y) \div 2 + 1
             m == g.dovetail_protrusion + g.tray_gap + g.dovetail_gap + 1
         IN  {pt \in (-far..far) \X (-far..far)
                        \X {g.grid_z \div 2, g.grid_z, g.grid_z + 1} :
                 Abs(pt[1]) <= m \/ Abs(pt[2]) <= m}

NextDovetail ==
    \/ \E a \in DovetailArgs : __init__(a)
    \/ call__dovetail_y
    \/ call__dovetail_x
    \/ \E amount \in {-1, 0, 1} : call__grow_xy_by(amount)
    \/ \E pt \in DovetailPoints : Probe(pt)

SpecDovetail == Init /\ [][NextDovetail]_vars

(***************************************************************************)
(* Trays placed on the grid, as single_tray.py places them: the tray       *)
(* returned last is shown at the origin or moved by whole cells.           *)
(***************************************************************************)
\* The number of trays single_tray.py shows.
MaxShown == 3

\* The cell offsets of the placements: at the origin, two cells along X, one
\* and two cells along Y, and one cell along both.
PlaceAt == {<<0, 0>>, <<2, 0>>, <<0, 1>>, <<0, 2>>, <<1, 1>>}

\* The sizes of the trays that are placed, label_tray(2,1) among them, and the
\* height of their label.
ShownExtents == {<<2, 1>>, <<1, 1>>, <<1, 2>>}

ShownLabelHeights == {16}

PlaceArgs ==
    [x : {24}, y : {24}, z : {24}, tray_gap : {2},
     corner_fillet : {4}, chamfer_top : {2}, chamfer_bottom : {3},
     dovetail_protrusion : {4}, dovetail_length_fraction : {Half},
     dovetail_angle : {Deg67}, dovetail_gap : {0, 1}]
    \cup
    [x : {32}, y : {24}, z : {24}, tray_gap : {0},
     corner_fillet : {2}, chamfer_top : {1}, chamfer_bottom : {3},
     dovetail_protrusion : {4}, dovetail_length_fraction : {Half},
     dovetail_angle : {Deg53}, dovetail_gap : {1}]

\* show_object(tray) / show_object(tray.translate((k[1]*cell_x, k[2]*cell_y, 0)))
show_object(k) ==
    /\ Callable
    /\ ret.fn \in {"basic_tray", "label_tray"}
    /\ Cardinality(shown) < MaxShown
    /\ LET at == <<k[1] * self.grid_x, k[2] * self.grid_y, 0>>
       IN  shown' = shown \cup
              {[x |-> ret.x, y |-> ret.y, at |-> at, tray |-> ret.value,
                solid |-> IF k = <<0, 0>> THEN ret.value
                          ELSE translate(ret.value, at)]}
    /\ UNCHANGED <<given, self, raised, ret, probe>>

NextPlacement ==
    \/ \E a \in PlaceArgs : __init__(a)
    \/ \E e \in ShownExtents, h \in ShownLabelHeights :
          call_label_tray(e[1], e[2], 0, h)
    \/ \E k \in PlaceAt : show_object(k)

SpecPlacement == Init /\ [][NextPlacement]_vars

(***************************************************************************)
(* Finished trays, inspected on a lattice of points four units apart that  *)
(* reaches one lattice step beyond the bounding box.                       *)
(***************************************************************************)
TrayArgs ==
    {[x |-> 24, y |-> 24, z |-> 24, tray_gap |-> 2, corner_fillet |-> 4,
      chamfer_top |-> 2, chamfer_bottom |-> 3, dovetail_protrusion |-> 4,
      dovetail_length_fraction |-> Half, dovetail_angle |-> Deg67,
      dovetail_gap |-> 1],
     [x |-> 24, y |-> 24, z |-> 24, tray_gap |-> 0, corner_fillet |-> 2,
      chamfer_top |-> 0, chamfer_bottom |-> 3, dovetail_protrusion |-> 4,
      dovetail_length_fraction |-> Half, dovetail_angle |-> Deg90,
      dovetail_gap |-> 0]}

TrayExtents == {<<1, 1>>, <<2, 1>>}

TrayPoints ==
    IF ~Inspectable THEN {}
    ELSE LET g == self
             xs == {-5 + 4 * i : i \in 0..((g.grid_x * ret.x + 10) \div 4)}
             ys == {-7 + 4 * j : j \in 0..((g.grid_y * ret.y + 12) \div 4)}
             zs == {2 + 4 * k : k \in 0..(g.grid_z \div 4)}
         IN  xs \X ys \X zs

NextTray ==
    \/ \E a \in TrayArgs : __init__(a)
    \/ \E e \in TrayExtents, w \in WallThicknesses : call_basic_tray(e[1], e[2], w)
    \/ \E e \in TrayExtents, w \in WallThicknesses, h \in LabelHeights :
          call_label_tray(e[1], e[2], w, h)
    \/ \E pt \in TrayPoints : Probe(pt)

SpecTray == Init /\ [][NextTray]_vars

(***************************************************************************)
(* Reading a returned tray back as the steps that built it.                *)
(***************************************************************************)
TrayFns == {"_tray", "basic_tray", "label_tray"}

\* The node of a tray where it was intersected with the bounding volume.
RECURSIVE Clipped(_)
Clipped(s) == IF s.op = "intersect" THEN s ELSE Clipped(s.a)

\* The unions and subtractions applied on the way to s, first to last.
RECURSIVE Assembly(_)
Assembly(s) ==
    IF s.op \in {"union", "cut"} THEN Append(Assembly(s.a), s) ELSE <<>>

\* The amount a shape was grown by, and the shape that was grown.
GrownBy(s) ==
    IF s.op = "union" /\ s.b.op = "shell" /\ s.b.t > 0 THEN s.b.t
    ELSE IF s.op = "cut" /\ s.b.op = "shell" /\ s.b.t < 0 THEN s.b.t
    ELSE 0

Ungrown(s) ==
    IF s.op \in {"union", "cut"} /\ s.b.op = "shell" THEN s.a ELSE s

(***************************************************************************)
(* The claims.                                                             *)
(***************************************************************************)

\* C1: constructing with tray_gap < 0 raises ValueError and stores nothing (no
\* object, hence no solid, exists afterwards); with tray_gap >= 0 construction
\* succeeds and each of the eleven parameters is stored as given.
C1_ConstructionValidated ==
    given # None =>
        IF given.tray_gap < 0
        THEN /\ raised = "ValueError"
             /\ self = None
             /\ ret = NoCall
             /\ shown = {}
        ELSE /\ raised = "None"
             /\ self # None
             /\ self.grid_x = given.x
             /\ self.grid_y = given.y
             /\ self.grid_z = given.z
             /\ self.tray_gap = given.tray_gap
             /\ self.corner_fillet = given.corner_fillet
             /\ self.chamfer_top = given.chamfer_top
             /\ self.chamfer_bottom = given.chamfer_bottom
             /\ self.dovetail_protrusion = given.dovetail_protrusion
             /\ self.dovetail_length_fraction = given.dovetail_length_fraction
             /\ self.dovetail_angle = given.dovetail_angle
             /\ self.dovetail_gap = given.dovetail_gap

C1_Witness ==
    /\ given # None
    /\ given.tray_gap < 0
    /\ raised = "ValueError"

\* C7: no generation call changes a field of the object: after any sequence
\* of calls the object is the one construction stored, and the solid a call
\* returned is the one the same call returns on a freshly constructed object.
C7_Stateless ==
    self # None =>
        LET fresh == Fields(given)
        IN  /\ self = fresh
            /\ ret.fn = "nominal_volume" =>
                  ret.value = nominal_volume(fresh, ret.x, ret.y)
            /\ ret.fn = "bounding_volume" =>
                  ret.value = bounding_volume(fresh, ret.x, ret.y)
            /\ ret.fn = "_dovetail_y" => ret.value = _dovetail_y(fresh)
            /\ ret.fn = "_dovetail_x" => ret.value = _dovetail_x(fresh)
            /\ ret.fn = "_tray" => ret.value = _tray(fresh, ret.x, ret.y)
            /\ ret.fn = "basic_tray" =>
                  ret.value = basic_tray(fresh, ret.x, ret.y, ret.wall_thickness)
            /\ ret.fn = "label_tray" =>
                  ret.value = label_tray(fresh, ret.x, ret.y, ret.wall_thickness,
                                         ret.label_height)

\* A call made after at least one other generation call.
C7_Witness ==
    /\ self # None
    /\ ret.fn = "_grow_xy_by"
    /\ ret.value.op = "cut"

\* C8: a tray of countX by countY cells gets exactly countX tabs on its -Y
\* edge (Y = 0) and countX slots on its +Y edge (Y = countY*cell_y), at
\* X = cell_x/2 + i*cell_x, and exactly countY tabs on its -X edge (X = 0) and
\* countY slots on its +X edge (X = countX*cell_x), at Y = cell_y/2 + j*cell_y;
\* a tab is the profile grown by -dovetail_gap and united, a slot the profile
\* grown by +dovetail_gap and subtracted; nothing else is united or cut.
C8_TabsAndSlotsPlaced ==
    ret.fn \in TrayFns =>
        LET g == self
            steps == Assembly(Clipped(ret.value).a)
            dovetails == {i \in DOMAIN steps : steps[i].b.op = "translate"}
            tabs == {i \in dovetails : steps[i].op = "union"}
            slots == {i \in dovetails : steps[i].op = "cut"}
            \* twice the X and Y a step's dovetail was placed at
            At2(i) == <<2 * steps[i].b.v[1], 2 * steps[i].b.v[2]>>
            xs == {g.grid_x + 2 * i * g.grid_x : i \in 0..(ret.x - 1)}
            ys == {g.grid_y + 2 * j * g.grid_y : j \in 0..(ret.y - 1)}
            front == {<<x2, 0>> : x2 \in xs}
            rear == {<<x2, 2 * ret.y * g.grid_y>> : x2 \in xs}
            left == {<<0, y2>> : y2 \in ys}
            right == {<<2 * ret.x * g.grid_x, y2>> : y2 \in ys}
            AlongY(i) == At2(i) \in front \cup rear
        IN  /\ Cardinality(tabs) = ret.x + ret.y
            /\ Cardinality(slots) = ret.x + ret.y
            /\ {At2(i) : i \in tabs} = front \cup left
            /\ {At2(i) : i \in slots} = rear \cup right
            /\ \A i \in DOMAIN steps :
                  i \notin dovetails => i = 1 /\ steps[i].b.op = "shell"
            /\ \A i \in dovetails :
                  /\ steps[i].b.v[3] = 0
                  /\ GrownBy(steps[i].b.a) =
                        IF i \in tabs THEN -g.dovetail_gap ELSE g.dovetail_gap
                  /\ Ungrown(steps[i].b.a).op = IF AlongY(i) THEN "translate" ELSE "rotate"
                  /\ Ungrown(steps[i].b.a) \in {_dovetail_y(g), _dovetail_x(g)}

C8_Witness ==
    /\ ret.fn = "_tray"
    /\ ret.x = 2
    /\ ret.y = 2
    /\ self.dovetail_gap > 0
    /\ Len(Assembly(Clipped(ret.value).a)) >= 8

WidthAlongX ==
    (self.grid_x * self.dovetail_length_fraction.num)
        \div self.dovetail_length_fraction.den

\* The width of the profile the X-axis dovetail is made of.
WidthAlongY ==
    (self.grid_y * self.dovetail_length_fraction.num)
        \div self.dovetail_length_fraction.den

\* The tab of the -Y edge before it is placed: the Y-axis profile shrunk by
\* dovetail_gap.
TabY == _grow_xy_by(_dovetail_y(self), -self.dovetail_gap)

\* The tray body the first tab is united with.
BodyOf(tray) ==
    LET steps == Assembly(Clipped(tray).a)
        first == CHOOSE i \in DOMAIN steps :
                    /\ steps[i].b.op = "translate"
                    /\ \A j \in DOMAIN steps : steps[j].b.op = "translate" => i <= j
    IN  steps[first].a

\* C9: the profile is dovetail_protrusion + tray_gap + 2*dovetail_gap thick and
\* moved by -(dovetail_protrusion - tray_gap)/2 along its thickness; the tab
\* (profile shrunk by dovetail_gap) then lies between -dovetail_protrusion and
\* +tray_gap and no higher than the cell; on its centre line it is exactly
\* that span; the point where its centre line ends at +tray_gap is a point of
\* the tray body (tab and body touch), and the point where it ends at
\* -dovetail_protrusion is the last point of the bounding volume on that line.
C9_TabSpan ==
    (probe # NoProbe /\ ret.fn = "_grow_xy_by" /\ ret.value = TabY)
        => LET g == self
               profile == Ungrown(ret.value)
               y == probe[2]
               placed == <<probe[1] + g.grid_x \div 2, probe[2], probe[3]>>
           IN  /\ profile.a.h = g.dovetail_protrusion + g.tray_gap + 2 * g.dovetail_gap
               /\ 2 * profile.v[2] = -(g.dovetail_protrusion - g.tray_gap)
               /\ profile.v[1] = 0
               /\ In(probe, ret.value) =>
                     /\ -g.dovetail_protrusion <= y /\ y <= g.tray_gap
                     /\ probe[3] <= g.grid_z
               /\ (probe[1] = 0 /\ probe[3] <= g.grid_z) =>
                     (In(probe, ret.value) <=>
                         -g.dovetail_protrusion <= y /\ y <= g.tray_gap)
               /\ (probe[1] = 0 /\ probe[3] <= g.grid_z /\ y = g.tray_gap) =>
                     In(placed, BodyOf(_tray(g, 1, 1)))
               /\ (probe[1] = 0 /\ probe[3] = g.grid_z \div 2
                       /\ y = -g.dovetail_protrusion) =>
                     /\ In(placed, bounding_volume(g, 1, 1))
                     /\ ~In(<<placed[1], placed[2] - 1, placed[3]>>,
                            bounding_volume(g, 1, 1))

\* The tip of a tab that was shrunk by a positive dovetail_gap, with a
\* positive tray_gap.
C9_Witness ==
    /\ probe # NoProbe
    /\ ret.fn = "_grow_xy_by"
    /\ ret.value = TabY
    /\ self.dovetail_gap > 0
    /\ self.tray_gap > 0
    /\ probe[1] = 0
    /\ probe[2] = -self.dovetail_protrusion
    /\ In(probe, ret.value)

\* C10 as stated: the X-axis profile is the Y-axis profile rotated by -90
\* degrees about Z: (x, y) is a point of the Y-axis profile exactly when
\* (y, -x) is a point of the X-axis profile.
C10_XProfileIsRotatedYProfile ==
    (probe # NoProbe /\ ret.fn = "_dovetail_x")
        => (In(probe, ret.value)
               <=> In(<<-probe[2], probe[1], probe[3]>>, _dovetail_y(self)))

\* C10, amended: the X-axis profile is the dovetail profile of width
\* cell_y * dovetail_length_fraction rotated by -90 degrees about Z.  It lies
\* between X = -dovetail_protrusion - dovetail_gap and X = tray_gap +
\* dovetail_gap, within half that width of the X axis and no higher than the
\* cell; on the X axis it is exactly that span, and at its tip it is exactly
\* that wide.  It is the rotated Y-axis profile when cell_x = cell_y.
C10_XProfileIsRotatedProfileOfCellY ==
    (probe # NoProbe /\ ret.fn = "_dovetail_x")
        => LET g == self
               x == probe[1]
               y == probe[2]
               tip == -g.dovetail_protrusion - g.dovetail_gap
               base == g.tray_gap + g.dovetail_gap
               inside == In(probe, ret.value)
               low == probe[3] <= g.grid_z
           IN  /\ inside <=> In(<<-y, x, probe[3]>>, _dovetail(g, WidthAlongY))
               /\ inside => /\ tip <= x /\ x <= base
                            /\ 2 * Abs(y) <= WidthAlongY
                            /\ low
               /\ (y = 0 /\ low) => (inside <=> tip <= x /\ x <= base)
               /\ (x = tip /\ low) => (inside <=> 2 * Abs(y) <= WidthAlongY)
               /\ g.grid_x = g.grid_y =>
                     (inside <=> In(<<-y, x, probe[3]>>, _dovetail_y(g)))

\* A point of the X-axis profile of cells that are not square, outside the
\* width cell_x * dovetail_length_fraction.
C10_Witness ==
    /\ probe # NoProbe
    /\ ret.fn = "_dovetail_x"
    /\ self.grid_x < self.grid_y
    /\ 2 * Abs(probe[2]) > WidthAlongX
    /\ In(probe, ret.value)

\* The tabs a tray got on its -Y edge and the slots it got on its +Y edge, as
\* the placed, grown or shrunk profiles that were united or subtracted.
FrontTabs(tray) ==
    LET steps == Assembly(Clipped(tray).a)
    IN  {steps[i].b : i \in {j \in DOMAIN steps :
            /\ steps[j].op = "union"
            /\ steps[j].b.op = "translate"
            /\ Ungrown(steps[j].b.a).op = "translate"}}

RearSlots(tray) ==
    LET steps == Assembly(Clipped(tray).a)
    IN  {steps[i].b : i \in {j \in DOMAIN steps :
            /\ steps[j].op = "cut"
            /\ steps[j].b.op = "translate"
            /\ Ungrown(steps[j].b.a).op = "translate"}}

\* The integer points of the plane around (x, y), at mid height, that cover a
\* slot placed there.
Around(x, y) ==
    LET g == self
        wide == Max2(g.grid_x, g.grid_y) \div 2 + g.dovetail_gap + 1
        deep == g.dovetail_protrusion + g.tray_gap + g.dovetail_gap + 1
    IN  ((x - wide)..(x + wide)) \X ((y - deep)..(y + deep)) \X {g.grid_z \div 2}

\* C4: when tray B is placed so that its -Y face meets the +Y face of tray A,
\* each tab of B's -Y edge that falls in a cell column of A is at the place of
\* a slot of A's +Y edge, every point of the tab (profile grown by
\* -dovetail_gap) is a point of that slot (profile grown by +dovetail_gap),
\* and the two are the same region exactly when dovetail_gap = 0.
C4_TabFitsSlot ==
    \A A, B \in shown :
        B.at[2] - A.at[2] = A.y * self.grid_y =>
            \A tab \in FrontTabs(B.tray) :
                LET X == B.at[1] + tab.v[1]
                    Y == B.at[2] + tab.v[2]
                    InTab(pt) == In(pt, translate(tab, B.at))
                IN  (A.at[1] < X /\ X < A.at[1] + A.x * self.grid_x) =>
                        \E slot \in RearSlots(A.tray) :
                            LET InSlot(pt) == In(pt, translate(slot, A.at))
                            IN  /\ A.at[1] + slot.v[1] = X
                                /\ A.at[2] + slot.v[2] = Y
                                /\ \A pt \in Around(X, Y) : InTab(pt) => InSlot(pt)
                                /\ (self.dovetail_gap = 0)
                                      <=> (\A pt \in Around(X, Y) :
                                              InSlot(pt) => InTab(pt))

\* Two trays of two cells by one, the second one cell behind and one cell to
\* the right of the first, with a positive dovetail_gap.
C4_Witness ==
    \E A, B \in shown :
        /\ A.at = <<0, 0, 0>>
        /\ B.at = <<self.grid_x, self.grid_y, 0>>
        /\ A.x = 2 /\ A.y = 1
        /\ B.x = 2
        /\ self.dovetail_gap > 0
        /\ \E tab \in FrontTabs(B.tray) :
              In(<<B.at[1] + tab.v[1], B.at[2], self.grid_z \div 2>>,
                 translate(tab, B.at))

\* C3: every point of a tray that basic_tray or label_tray returned is a
\* point of bounding_volume(countX, countY).
C3_TrayInsideBounding ==
    (probe # NoProbe /\ In(probe, ret.value))
        => In(probe, bounding_volume(self, ret.x, ret.y))

\* A point of a tab, outside the nominal prism, in a returned tray.
C3_Witness ==
    /\ probe # NoProbe
    /\ ret.fn = "label_tray"
    /\ probe[1] < 0
    /\ In(probe, ret.value)

\* The solid a returned tray was shelled from, or the tray itself.
Unshelled(tray) == IF tray.op = "shell" THEN tray.a ELSE tray

\* The centre of the first cell, at mid height.
CellCentre == <<self.grid_x \div 2, self.grid_y \div 2, self.grid_z \div 2>>

\* C6: with wall_thickness = 0 basic_tray returns the assembled tray and
\* label_tray the notched tray, not shelled; with wall_thickness > 0 they
\* return that solid shelled by -wall_thickness from its top face: every
\* point of the result is a point of the solid, the centre of the first cell
\* is a point of the solid and not of the result, and the points of the solid
\* less than wall_thickness above its bottom stay.
C6_WallHandling ==
    ret.fn \in {"basic_tray", "label_tray"} =>
        LET solid == Unshelled(ret.value)
        IN  /\ ret.fn = "basic_tray" => solid = _tray(self, ret.x, ret.y)
            /\ ret.fn = "label_tray" =>
                  /\ solid.op = "cut" /\ solid.b.op = "loft"
                  /\ solid.a.op = "cut" /\ solid.a.b.op = "extrude"
                  /\ solid.a.a = _tray(self, ret.x, ret.y)
            /\ ret.wall_thickness = 0 => ret.value = solid
            /\ ret.wall_thickness > 0 =>
                  /\ ret.value = shell(solid, ">Z", -ret.wall_thickness)
                  /\ In(CellCentre, solid) /\ ~In(CellCentre, ret.value)
                  /\ probe # NoProbe =>
                        /\ In(probe, ret.value) => In(probe, solid)
                        /\ (In(probe, solid) /\ probe[3] < ret.wall_thickness)
                              => In(probe, ret.value)

\* A point of the bottom of a shelled tray.
C6_Witness ==
    /\ probe # NoProbe
    /\ ret.fn = "basic_tray"
    /\ ret.wall_thickness > 0
    /\ probe[3] < ret.wall_thickness
    /\ In(probe, ret.value)
    /\ ~In(CellCentre, ret.value)

\* Whether a point is, in Y and Z, in the triangle (label_size, cell_z),
\* (-dovetail_protrusion, cell_z), (-dovetail_protrusion, cell_z -
\* dovetail_protrusion - label_size), label_size = label_height/sqrt(2).
InLabelRegion(pt, label_height) ==
    LET g == self
    IN  InPolygon(<<[y |-> Lin(0, 1), z |-> Lin(g.grid_z, 0)],
                    [y |-> Lin(-g.dovetail_protrusion, 0), z |-> Lin(g.grid_z, 0)],
                    [y |-> Lin(-g.dovetail_protrusion, 0),
                     z |-> Lin(g.grid_z - g.dovetail_protrusion, -1)]>>,
                  pt[2], pt[3], label_height)

\* C5 as stated: every point of label_tray is a point of the non-notched tray
\* of the same Extent and wall_thickness and of the bounding volume, and
\* label_tray has no point in the label region where that tray has one.
C5_LabelTrayInsideTray ==
    (probe # NoProbe /\ ret.fn = "label_tray")
        => LET plain == basic_tray(self, ret.x, ret.y, ret.wall_thickness)
           IN  /\ In(probe, ret.value) =>
                     /\ In(probe, plain)
                     /\ In(probe, bounding_volume(self, ret.x, ret.y))
               /\ (InLabelRegion(probe, ret.label_height) /\ In(probe, plain))
                     => ~In(probe, ret.value)

\* C5, amended: every point of label_tray is a point of the solid
\* (wall_thickness = 0) non-notched tray of the same Extent and of the
\* bounding volume; label_tray has no point in the label region at any X from
\* 0 to countX*cell_x; and when label_size > chamfer_top the point at the
\* middle of the first cell's front edge, chamfer_top below the top, is a
\* point of the non-notched tray and not of label_tray.
C5_LabelTrayInsideSolidTray ==
    ret.fn = "label_tray"
        => LET g == self
               plain == _tray(g, ret.x, ret.y)
               edge == <<g.grid_x \div 2, 0, g.grid_z - g.chamfer_top>>
           IN  /\ (2 * Sq(g.chamfer_top) < Sq(ret.label_height))
                     => In(edge, plain) /\ ~In(edge, ret.value)
               /\ probe # NoProbe =>
                     /\ In(probe, ret.value) =>
                           /\ In(probe, plain)
                           /\ In(probe, bounding_volume(g, ret.x, ret.y))
                     /\ (/\ InLabelRegion(probe, ret.label_height)
                         /\ 0 <= probe[1]
                         /\ probe[1] <= ret.x * g.grid_x)
                           => ~In(probe, ret.value)

\* A point of the non-notched tray, in the label region, that label_tray
\* removed.
C5_Witness ==
    /\ probe # NoProbe
    /\ ret.fn = "label_tray"
    /\ InLabelRegion(probe, ret.label_height)
    /\ 0 <= probe[1]
    /\ probe[1] <= ret.x * self.grid_x
    /\ In(probe, _tray(self, ret.x, ret.y))
    /\ ~In(probe, ret.value)

\* The operations applied to reach solid s, first to last, each as the node
\* of the tree it made.
RECURSIVE Spine(_)
Spine(s) == IF s.op = "extrude" THEN <<s>> ELSE Append(Spine(s.a), s)

\* The step of tray generation a node of the spine is.
StepName(n) ==
    CASE n.op = "extrude" -> "nominal"
      [] n.op = "fillet" -> "fillet"
      [] n.op = "cut" /\ n.b.op = "shell" -> "shrink"
      [] n.op = "union" /\ n.b.op = "translate" -> "tab"
      [] n.op = "cut" /\ n.b.op = "translate" -> "slot"
      [] n.op = "intersect" -> "clip"
      [] n.op = "cut" /\ n.b.op = "extrude" -> "wedge"
      [] n.op = "cut" /\ n.b.op = "loft" -> "relief"
      [] n.op = "shell" -> "shell"
      [] OTHER -> n.op

\* C11: a returned tray was made by these steps in this order: the nominal
\* volume, the fillet of its vertical edges, the shrinking by tray_gap (exactly
\* when tray_gap > 0), all the tab unions and slot subtractions, the
\* intersection with the bounding volume, then (in label_tray only) the wedge
\* cut followed by the relief loft cut, and last the shell (exactly when
\* wall_thickness > 0); no step occurs anywhere else.
C11_StepOrder ==
    ret.fn \in TrayFns =>
        LET g == self
            nodes == Spine(ret.value)
            steps == [i \in DOMAIN nodes |-> StepName(nodes[i])]
            shaped == IF g.tray_gap > 0 THEN 3 ELSE 2
            joined == shaped + 2 * (ret.x + ret.y)
            notch == IF ret.fn = "label_tray" THEN <<"wedge", "relief">> ELSE <<>>
            wall == IF ret.wall_thickness > 0 THEN <<"shell">> ELSE <<>>
        IN  /\ Len(steps) = joined + 1 + Len(notch) + Len(wall)
            /\ steps[1] = "nominal"
            /\ nodes[1] = nominal_volume(g, ret.x, ret.y)
            /\ steps[2] = "fillet"
            /\ nodes[2].sel = "|Z"
            /\ g.tray_gap > 0 => steps[3] = "shrink" /\ nodes[3].b.t = -g.tray_gap
            /\ \A i \in (shaped + 1)..joined : steps[i] \in {"tab", "slot"}
            /\ steps[joined + 1] = "clip"
            /\ nodes[joined + 1].b = bounding_volume(g, ret.x, ret.y)
            /\ SubSeq(steps, joined + 2, Len(steps)) = notch \o wall
            /\ ret.wall_thickness > 0 =>
                  /\ nodes[Len(nodes)].sel = ">Z"
                  /\ nodes[Len(nodes)].t = -ret.wall_thickness

\* A label tray with walls, made of cells that are shrunk by tray_gap: every
\* step of the order occurs.
C11_Witness ==
    /\ ret.fn = "label_tray"
    /\ ret.wall_thickness > 0
    /\ self.tray_gap > 0
    /\ ret.x = 2
    /\ LET nodes == Spine(ret.value)
       IN  /\ StepName(nodes[Len(nodes)]) = "shell"
           /\ StepName(nodes[Len(nodes) - 1]) = "relief"
           /\ StepName(nodes[3]) = "shrink"

====
